---- MODULE Spec2Model ----
(***************************************************************************)
(* Model of examples/simulation-closed-kinematic-chains.py: the script     *)
(* that assembles a four-bar linkage, closes the loop by an inverse-       *)
(* kinematics iteration on the KKT system and then time-steps the          *)
(* constrained dynamics.  One action per statement group of the script;    *)
(* pc is the statement the interpreter executes next.  The values the      *)
(* rigid-body library returns (constraint value, Jacobian, KKT solution,   *)
(* acceleration) are drawn from small sets: the script must behave as      *)
(* claimed whatever the library returns.                                   *)
(*                                                                         *)
(* Reals are on fixed-point grids:                                         *)
(*   lengths    in decimetres (1.0 m = 10)                                 *)
(*   angles     in steps of pi / Pi (np.pi = Pi steps)                     *)
(*   residuals  in steps of eps / 2, so that values below, at and above    *)
(*              the tolerance exist                                        *)
(*   y, dual_feas, rhs  as u * 1.0 + e * (eps / 2), the pair (one, step):  *)
(*              1.0 is 2 * 10^10 steps, so np.ones is one whole unit and   *)
(*              a pair with one # 0 is never below eps                     *)
(*   gain Kd    in steps of 1 / GainScale, Kp as the integer it is         *)
(*   dt, T_sim  as the number of milliseconds their literals denote        *)
(*   t          as the IEEE-754 double the script holds: a non-negative    *)
(*              binary number of Limbs digits in base 2^LimbBits, the top  *)
(*              digit the whole seconds, with at most MantBits significant *)
(*              bits; t += dt rounds to nearest, ties to even              *)
(*   v, q      of the dynamics loop on the exact grids of a * dt and of    *)
(*              the angles: no branch of the script reads them             *)
(* mu = 1e-4 is the fraction MuNum / MuDen; mu_sim is only passed on and   *)
(* is kept as written.  The horizon T_sim = 100000 s is scaled down to a   *)
(* few steps of dt.                                                        *)
(***************************************************************************)
EXTENDS Integers, Sequences, FiniteSets, TLC

(* ----------------------------- program constants ----------------------- *)
length_link_A == 10
length_link_B == 6
Pi == 4
eps == 2
MuNum == 1
MuDen == 10000
alpha == 1
N == 100
DtMs == 5
KpValue == 10
base_joint_id == 0

(* ----------------------------- bounds of the model --------------------- *)
\* simulated-time horizon in ms (the script's T_sim = 100000 s, scaled down)
T_sim == 20
\* fixed-point resolution of the corrector gains
GainScale == 100

(* ----------------------------- numpy helpers --------------------------- *)
Abs(x) == IF x < 0 THEN -x ELSE x

Max(a, b) == IF a < b THEN b ELSE a

\* the element of a one-element set: Only({ F(c) : c \in { e } }) is F(e),
\* with e worked out once
Only(S) == CHOOSE r \in S : TRUE

\* f(1), ..., f(n) as a sequence
Vector(f, n) == SubSeq(f, 1, n)

zeros(n) == [i \in 1..n |-> 0]

\* the number u * 1.0 + e * (eps / 2)
Num(u, e) == [one |-> u, step |-> e]

\* a residual-grid value as such a number
Lift(e) == Num(0, e)

NumAdd(x, z) == Num(x.one + z.one, x.step + z.step)

NumSub(x, z) == Num(x.one - z.one, x.step - z.step)

NumScale(s, x) == Num(s * x.one, s * x.step)

NumNeg(x) == Num(-x.one, -x.step)

\* x < z: the whole units decide, the steps only between equal units
NumLess(x, z) == x.one < z.one \/ (x.one = z.one /\ x.step < z.step)

NumAbs(x) == Only({ IF NumLess(xc, Lift(0)) THEN NumNeg(xc) ELSE xc : xc \in { x } })

NumMax(x, z) == Only({ IF NumLess(xc, zc) THEN zc ELSE xc : xc \in { x }, zc \in { z } })

NumVec(a) ==
    Only({ Vector([i \in 1..Len(ac) |-> Lift(ac[i])], Len(ac)) : ac \in { a } })

NumVecAdd(a, b) ==
    Only({ Vector([i \in 1..Len(ac) |-> NumAdd(ac[i], bc[i])], Len(ac)) :
           ac \in { a }, bc \in { b } })

NumVecSub(a, b) ==
    Only({ Vector([i \in 1..Len(ac) |-> NumSub(ac[i], bc[i])], Len(ac)) :
           ac \in { a }, bc \in { b } })

NumVecScale(s, a) ==
    Only({ Vector([i \in 1..Len(ac) |-> NumScale(s, ac[i])], Len(ac)) : ac \in { a } })

NumVecNeg(a) ==
    Only({ Vector([i \in 1..Len(ac) |-> NumNeg(ac[i])], Len(ac)) : ac \in { a } })

\* np.ones(n): n times 1.0
ones(n) == [i \in 1..n |-> Num(1, 0)]

VecAdd(a, b) == [i \in 1..Len(a) |-> a[i] + b[i]]

VecSub(a, b) == [i \in 1..Len(a) |-> a[i] - b[i]]

VecScale(s, a) == [i \in 1..Len(a) |-> s * a[i]]

VecNeg(a) == [i \in 1..Len(a) |-> -a[i]]

RECURSIVE NormInfUpTo(_, _)
NormInfUpTo(a, n) == IF n = 0 THEN 0 ELSE Max(Abs(a[n]), NormInfUpTo(a, n - 1))

\* np.linalg.norm(a, np.inf)
NormInf(a) == NormInfUpTo(a, Len(a))

RECURSIVE DotUpTo(_, _, _)
DotUpTo(a, b, n) == IF n = 0 THEN 0 ELSE a[n] * b[n] + DotUpTo(a, b, n - 1)

\* np.linalg.norm(a): the Euclidean norm, kept as its square
Norm2Sq(a) == DotUpTo(a, a, Len(a))

RECURSIVE NumNormInfUpTo(_, _)
NumNormInfUpTo(a, n) ==
    IF n = 0 THEN Lift(0) ELSE NumMax(NumAbs(a[n]), NumNormInfUpTo(a, n - 1))

\* np.linalg.norm(a, np.inf) of a vector of such numbers
NumNormInf(a) == Only({ NumNormInfUpTo(ac, Len(ac)) : ac \in { a } })

RECURSIVE NumDotUpTo(_, _, _)
NumDotUpTo(a, w, n) ==
    IF n = 0 THEN Lift(0) ELSE NumAdd(NumScale(a[n], w[n]), NumDotUpTo(a, w, n - 1))

\* J.T.dot(w) for J a sequence of rows
MatTVec(J, w) ==
    Only({ Vector([j \in 1..Len(Jc[1]) |->
                      NumDotUpTo([i \in 1..Len(Jc) |-> Jc[i][j]], wc, Len(Jc))],
                  Len(Jc[1])) :
           Jc \in { J }, wc \in { w } })

\* a[:n] and a[n:]
Head_(a, n) == SubSeq(a, 1, n)

Tail_(a, n) == SubSeq(a, n + 1, Len(a))

\* np.sqrt on the gain grid: sqrt(x) in units of 1 / GainScale, rounded down
Sqrt(x) ==
    CHOOSE r \in 0..(x * GainScale) :
        r * r <= x * GainScale * GainScale /\ x * GainScale * GainScale < (r + 1) * (r + 1)

(* ----------------------------- the double t ---------------------------- *)
\* significant bits of an IEEE-754 double
MantBits == 53

\* a number is Limbs digits of LimbBits bits, least significant first; the
\* last digit counts whole seconds, the others the fraction
LimbBits == 16

Limbs == 5

FracLimbs == Limbs - 1

Base == 2 ^ LimbBits

\* the remainder left after p fraction digits of n / d
RECURSIVE RemAt(_, _, _)
RemAt(n, d, p) == IF p = 0 THEN n % d ELSE (RemAt(n, d, p - 1) * Base) % d

\* the digits f(1), ..., f(Limbs) as a sequence
Digits(f) == Vector(f, Limbs)

\* n / d cut off after FracLimbs fraction digits
Exact(n, d) ==
    Digits([j \in 1..Limbs |->
        IF j > FracLimbs THEN n \div d
        ELSE (RemAt(n, d, FracLimbs - j) * Base) \div d])

\* bit i of x, bit 1 the least significant
Bit(x, i) == (x[(i - 1) \div LimbBits + 1] \div (2 ^ ((i - 1) % LimbBits))) % 2

\* the number of bits of the digit v
BitLen(v) == CHOOSE b \in 0..LimbBits : v < 2 ^ b /\ (b = 0 \/ 2 ^ (b - 1) <= v)

\* the position of the leading bit of x, 0 for zero
TopBit(x) ==
    IF \A j \in 1..Limbs : x[j] = 0 THEN 0
    ELSE Only({ (j - 1) * LimbBits + BitLen(x[j]) :
                j \in { i \in 1..Limbs : x[i] # 0 /\ \A h \in (i + 1)..Limbs : x[h] = 0 } })

\* digit j of the nbits lowest bits of x
LowDigit(x, nbits, j) ==
    IF j * LimbBits <= nbits THEN x[j]
    ELSE IF (j - 1) * LimbBits >= nbits THEN 0
    ELSE x[j] % (2 ^ (nbits - (j - 1) * LimbBits))

RECURSIVE CarryInto(_, _, _)
CarryInto(x, z, j) ==
    IF j = 1 THEN 0 ELSE (x[j - 1] + z[j - 1] + CarryInto(x, z, j - 1)) \div Base

\* x + z, digit by digit
BitsAdd(x, z) ==
    Only({ Digits([j \in 1..Limbs |-> (xc[j] + zc[j] + CarryInto(xc, zc, j)) % Base]) :
           xc \in { x }, zc \in { z } })

\* x with its drop lowest bits rounded away, to nearest and ties to even;
\* sticky says that x was itself cut off from something larger
RoundAway(x, drop, sticky) ==
    IF drop <= 0 THEN x
    ELSE LET kept == [j \in 1..Limbs |-> x[j] - LowDigit(x, drop, j)]
             below == sticky \/ \E j \in 1..Limbs : LowDigit(x, drop - 1, j) # 0
             up == Bit(x, drop) = 1 /\ (below \/ Bit(x, drop + 1) = 1)
             ulp == [j \in 1..Limbs |->
                        IF j = drop \div LimbBits + 1 THEN 2 ^ (drop % LimbBits) ELSE 0]
         IN  IF up THEN BitsAdd(kept, ulp) ELSE Digits(kept)

\* x rounded to MantBits significant bits
Round(x, sticky) ==
    Only(UNION { { RoundAway(xc, dc, sticky) : dc \in { TopBit(xc) - MantBits } } :
                 xc \in { x } })

\* the double a literal denotes: the one nearest to n / d
Double(n, d) == Round(Exact(n, d), RemAt(n, d, FracLimbs) # 0)

\* x + z on doubles: the exact sum, rounded
FAdd(x, z) == Round(BitsAdd(x, z), FALSE)

\* x <= z on doubles
FLeq(x, z) ==
    \E xc \in { x }, zc \in { z } :
        \/ xc = zc
        \/ \E j \in 1..Limbs : xc[j] < zc[j] /\ \A i \in (j + 1)..Limbs : xc[i] = zc[i]

(* ----------------------------- library values -------------------------- *)
\* constraint_data.c1Mc2.translation after kkt_constraint.compute
ConstraintValues == { <<0, 0, 0>>, <<1, 0, -1>>, <<0, -2, 1>> }

\* getFrameJacobian(...)[:3,:]
Jacobians ==
    { << <<0, 0, 0>>, <<0, 0, 0>>, <<0, 0, 0>> >>,
      << <<1, 0, 0>>, <<0, 1, 0>>, <<0, 0, 1>> >> }

\* kkt_constraint.solve(rhs): dz = (dy, dq)
KKTSolutions == { <<0, 0, 0, 1, 0, -1>>, <<-1, 0, 1, 1, 0, -1>> }

\* pin.contactDynamics(...): the joint acceleration
Accelerations == { <<1, -1, 0>> }

VARIABLES
    pc,
    model, collision_model, joint1_id, joint2_id, joint3_id, viz, data, q0,
    constraint_model, constraint_data, constraint_dim,
    q, y, k, constraint_value, J, primal_feas, dual_feas, rhs, dz,
    q_sol, v, tau, dt, t, mu_sim, a,
    out, calls, cnt, shown, kkt_constraint, initargs, cdargs, heap

vars == << pc, model, collision_model, joint1_id, joint2_id, joint3_id, viz, data, q0,
           constraint_model, constraint_data, constraint_dim,
           q, y, k, constraint_value, J, primal_feas, dual_feas, rhs, dz,
           q_sol, v, tau, dt, t, mu_sim, a,
           out, calls, cnt, shown, kkt_constraint, initargs, cdargs, heap >>

buildVars == << model, collision_model, joint1_id, joint2_id, joint3_id, viz, data, q0,
                constraint_model, constraint_data, constraint_dim >>

ikVars == << q, y, k, constraint_value, J, primal_feas, dual_feas, rhs, dz >>

simVars == << q_sol, v, tau, dt, t, mu_sim, a >>

logVars == << out, calls, cnt, shown, kkt_constraint, initargs, cdargs >>

\* a name that is not bound yet
None == [id |-> 0]

NoCalls == << >>

Bump(c, f) == [c EXCEPT ![f] = @ + 1]

\* the state before line 34: nothing is built, nothing was called
Init ==
    /\ pc = "create_model"
    /\ model = None /\ collision_model = None
    /\ joint1_id = 0 /\ joint2_id = 0 /\ joint3_id = 0
    /\ viz = None /\ data = None /\ q0 = << >>
    /\ constraint_model = None /\ constraint_data = None /\ constraint_dim = 0
    /\ q = << >> /\ y = << >> /\ k = -1
    /\ constraint_value = << >> /\ J = << >>
    /\ primal_feas = 0 /\ dual_feas = Lift(0) /\ rhs = << >> /\ dz = << >>
    /\ q_sol = << >> /\ v = << >> /\ tau = << >> /\ dt = 0 /\ t = << >>
    /\ mu_sim = "" /\ a = << >>
    /\ out = << >> /\ calls = NoCalls
    /\ cnt = [addJoint |-> 0, addGeom |-> 0, display |-> 0, jac |-> 0,
              compute |-> 0, solve |-> 0, integrate |-> 0, conv |-> 0,
              resid |-> 0, update |-> 0, initcd |-> 0, cd |-> 0, step |-> 0]
    /\ shown = << >> /\ kkt_constraint = None /\ initargs = None /\ cdargs = None
    /\ heap = 0

(* ----------------------------- model construction ---------------------- *)
\* pin.GeometryObject(name, parent_joint, shape, placement) with its meshColor
GeometryObject(name, joint, shape, color) ==
    [name |-> name, parentJoint |-> joint, shape |-> shape, meshColor |-> color]

\* model.addJoint(parent, JointModelRY(), placement, name): the new joint's id
\* is its index in model.joints (the universe is joint 0); appendBodyToJoint
\* then attaches the link's inertia to it
addJoint(m, parent, x, name, inertia) ==
    [m EXCEPT !.joints = Append(@, [parent |-> parent, type |-> "RY",
                                    placement |-> x, name |-> name,
                                    inertia |-> inertia])]

\* lines 34-35
CreateModel ==
    /\ pc = "create_model"
    /\ model' = [id |-> heap + 1, joints |-> << >>]
    /\ collision_model' = [id |-> heap + 2, geometryObjects |-> << >>]
    /\ heap' = heap + 2
    /\ pc' = "geom0"
    /\ UNCHANGED << joint1_id, joint2_id, joint3_id, viz, data, q0,
                    constraint_model, constraint_data, constraint_dim >>
    /\ UNCHANGED << ikVars, simVars, logVars >>

\* lines 40-43
AddGeom0 ==
    /\ pc = "geom0"
    /\ collision_model' = [collision_model EXCEPT !.geometryObjects =
            Append(@, GeometryObject("link_A1", base_joint_id, "shape_link_A", "WHITE"))]
    /\ cnt' = Bump(cnt, "addGeom")
    /\ pc' = "joint1"
    /\ UNCHANGED << model, joint1_id, joint2_id, joint3_id, viz, data, q0,
                    constraint_model, constraint_data, constraint_dim, heap >>
    /\ UNCHANGED << ikVars, simVars, out, calls, shown, kkt_constraint, initargs, cdargs >>

\* lines 45-51
AddJoint1 ==
    /\ pc = "joint1"
    /\ model' = addJoint(model, base_joint_id, length_link_A \div 2, "link_B1",
                         "inertia_link_B")
    /\ joint1_id' = Len(model'.joints)
    /\ collision_model' = [collision_model EXCEPT !.geometryObjects =
            Append(@, GeometryObject("link_B1", joint1_id', "shape_link_B", "RED"))]
    /\ cnt' = Bump(Bump(cnt, "addJoint"), "addGeom")
    /\ pc' = "joint2"
    /\ UNCHANGED << joint2_id, joint3_id, viz, data, q0,
                    constraint_model, constraint_data, constraint_dim, heap >>
    /\ UNCHANGED << ikVars, simVars, out, calls, shown, kkt_constraint, initargs, cdargs >>

\* lines 53-59
AddJoint2 ==
    /\ pc = "joint2"
    /\ model' = addJoint(model, joint1_id, length_link_B, "link_A2", "inertia_link_A")
    /\ joint2_id' = Len(model'.joints)
    /\ collision_model' = [collision_model EXCEPT !.geometryObjects =
            Append(@, GeometryObject("link_A2", joint2_id', "shape_link_A", "WHITE"))]
    /\ cnt' = Bump(Bump(cnt, "addJoint"), "addGeom")
    /\ pc' = "joint3"
    /\ UNCHANGED << joint1_id, joint3_id, viz, data, q0,
                    constraint_model, constraint_data, constraint_dim, heap >>
    /\ UNCHANGED << ikVars, simVars, out, calls, shown, kkt_constraint, initargs, cdargs >>

\* mutant of AddJoint3: the last link hangs from joint1, not from joint2
AddJoint3_OnJoint1 ==
    /\ pc = "joint3"
    /\ model' = addJoint(model, joint1_id, length_link_A, "link_B2", "inertia_link_B")
    /\ joint3_id' = Len(model'.joints)
    /\ collision_model' = [collision_model EXCEPT !.geometryObjects =
            Append(@, GeometryObject("link_B2", joint3_id', "shape_link_B", "RED"))]
    /\ cnt' = Bump(Bump(cnt, "addJoint"), "addGeom")
    /\ pc' = "viz"
    /\ UNCHANGED << joint1_id, joint2_id, viz, data, q0,
                    constraint_model, constraint_data, constraint_dim, heap >>
    /\ UNCHANGED << ikVars, simVars, out, calls, shown, kkt_constraint, initargs, cdargs >>

\* lines 61-67
AddJoint3 ==
    /\ pc = "joint3"
    /\ model' = addJoint(model, joint2_id, length_link_A, "link_B2", "inertia_link_B")
    /\ joint3_id' = Len(model'.joints)
    /\ collision_model' = [collision_model EXCEPT !.geometryObjects =
            Append(@, GeometryObject("link_B2", joint3_id', "shape_link_B", "RED"))]
    /\ cnt' = Bump(Bump(cnt, "addJoint"), "addGeom")
    /\ pc' = "viz"
    /\ UNCHANGED << joint1_id, joint2_id, viz, data, q0,
                    constraint_model, constraint_data, constraint_dim, heap >>
    /\ UNCHANGED << ikVars, simVars, out, calls, shown, kkt_constraint, initargs, cdargs >>

\* model.nv: one degree of freedom per revolute joint
nv(m) == Len(m.joints)

(* ----------------------------- visualizer setup ------------------------ *)
\* lines 69-77: GepettoVisualizer(model, collision_model, visual_model),
\* initViewer, loadViewerModel, background colours
VizSetup ==
    /\ pc = "viz"
    /\ viz' = [id |-> heap + 1, model |-> model.id,
               collision_model |-> collision_model.id,
               visual_model |-> collision_model.id,
               njoints |-> Len(model.joints),
               ngeoms |-> Len(collision_model.geometryObjects)]
    /\ heap' = heap + 1
    /\ pc' = "display_q0"
    /\ UNCHANGED << model, collision_model, joint1_id, joint2_id, joint3_id, data, q0,
                    constraint_model, constraint_data, constraint_dim >>
    /\ UNCHANGED << ikVars, simVars, logVars >>

\* lines 85-86: q0 = pin.neutral(model); viz.display(q0)
DisplayQ0 ==
    /\ pc = "display_q0"
    /\ q0' = zeros(nv(model))
    /\ shown' = q0'
    /\ cnt' = Bump(cnt, "display")
    /\ pc' = "create_data"
    /\ UNCHANGED << model, collision_model, joint1_id, joint2_id, joint3_id, viz, data,
                    constraint_model, constraint_data, constraint_dim, heap >>
    /\ UNCHANGED << ikVars, simVars, out, calls, kkt_constraint, initargs, cdargs >>

\* lines 88-89: data = model.createData(); forwardKinematics(model, data, q0)
CreateData ==
    /\ pc = "create_data"
    /\ data' = [id |-> heap + 1, q |-> q0]
    /\ heap' = heap + 1
    /\ pc' = "constraint"
    /\ UNCHANGED << model, collision_model, joint1_id, joint2_id, joint3_id, viz, q0,
                    constraint_model, constraint_data, constraint_dim >>
    /\ UNCHANGED << ikVars, simVars, logVars >>

\* lines 91-100: the 3D contact constraint between joint3 and the base
CreateConstraint ==
    /\ pc = "constraint"
    /\ constraint_model' =
            [id |-> heap + 1, type |-> "CONTACT_3D",
             joint1_id |-> joint3_id, joint1_placement |-> length_link_B,
             joint2_id |-> base_joint_id, joint2_placement |-> -(length_link_A \div 2),
             Kp |-> 0, Kd |-> 0]
    /\ constraint_data' = [id |-> heap + 2, of |-> heap + 1]
    /\ constraint_dim' = 3
    /\ heap' = heap + 2
    /\ pc' = "ik_init"
    /\ UNCHANGED << model, collision_model, joint1_id, joint2_id, joint3_id, viz, data, q0 >>
    /\ UNCHANGED << ikVars, simVars, logVars >>


(* ----------------------------- inverse kinematics ---------------------- *)
\* pin.integrate(model, q, v) on revolute joints: the angles are added
integrate(m, qq, vv) == VecAdd(qq, vv)

\* mutant of Converged: residuals equal to the tolerance pass
Converged_NonStrict(primal, dual) == primal <= eps /\ ~NumLess(Lift(eps), dual)

\* line 121: both residuals strictly below the tolerance
Converged(primal, dual) == primal < eps /\ NumLess(dual, Lift(eps))

\* line 125: np.concatenate([-constraint_value - y*mu, np.zeros(model.nv)]),
\* in units of 1 / MuDen
Rhs(c, yy, n) ==
    NumVecSub(NumVecScale(MuDen, NumVec(VecNeg(c))), NumVecScale(MuNum, yy))
        \o NumVec(zeros(n))

\* lines 103-112
IKInit ==
    /\ pc = "ik_init"
    /\ q' = q0
    /\ y' = ones(constraint_dim)
    /\ kkt_constraint' = [id |-> heap + 1, model |-> model.id,
                          contact_models |-> << constraint_model.id >>, q |-> << >>]
    /\ heap' = heap + 1
    /\ pc' = "ik_for"
    /\ UNCHANGED << buildVars, k, constraint_value, J, primal_feas, dual_feas, rhs, dz >>
    /\ UNCHANGED << simVars, out, calls, cnt, shown, initargs, cdargs >>

\* mutant of IKFor: the loop bound is off by one
IKFor_OffByOne ==
    /\ pc = "ik_for"
    /\ IF k + 1 <= N
          THEN /\ k' = k + 1
               /\ calls' = NoCalls
               /\ pc' = "ik_jac"
          ELSE /\ pc' = "q_sol"
               /\ UNCHANGED << k, calls >>
    /\ UNCHANGED << buildVars, q, y, constraint_value, J, primal_feas, dual_feas, rhs, dz >>
    /\ UNCHANGED << simVars, out, cnt, shown, kkt_constraint, initargs, cdargs, heap >>

\* line 113: for k in range(N)
IKFor ==
    /\ pc = "ik_for"
    /\ IF k + 1 < N
          THEN /\ k' = k + 1
               /\ calls' = NoCalls
               /\ pc' = "ik_jac"
          ELSE /\ pc' = "q_sol"
               /\ UNCHANGED << k, calls >>
    /\ UNCHANGED << buildVars, q, y, constraint_value, J, primal_feas, dual_feas, rhs, dz >>
    /\ UNCHANGED << simVars, out, cnt, shown, kkt_constraint, initargs, cdargs, heap >>

\* mutant of IKJacobians: the Jacobians are computed at q0, not at the iterate q
IKJacobians_AtQ0 ==
    /\ pc = "ik_jac"
    /\ data' = [data EXCEPT !.q = q0]
    /\ calls' = Append(calls, "computeJointJacobians")
    /\ cnt' = Bump(cnt, "jac")
    /\ pc' = "ik_compute"
    /\ UNCHANGED << model, collision_model, joint1_id, joint2_id, joint3_id, viz, q0,
                    constraint_model, constraint_data, constraint_dim >>
    /\ UNCHANGED << ikVars, simVars, out, shown, kkt_constraint, initargs, cdargs, heap >>

\* line 114: pin.computeJointJacobians(model, data, q)
IKJacobians ==
    /\ pc = "ik_jac"
    /\ data' = [data EXCEPT !.q = q]
    /\ calls' = Append(calls, "computeJointJacobians")
    /\ cnt' = Bump(cnt, "jac")
    /\ pc' = "ik_compute"
    /\ UNCHANGED << model, collision_model, joint1_id, joint2_id, joint3_id, viz, q0,
                    constraint_model, constraint_data, constraint_dim >>
    /\ UNCHANGED << ikVars, simVars, out, shown, kkt_constraint, initargs, cdargs, heap >>

\* lines 115-116: kkt_constraint.compute(...) factorises the KKT matrix of the
\* configuration held in data; constraint_value is read from constraint_data
IKCompute ==
    /\ pc = "ik_compute"
    /\ kkt_constraint' = [kkt_constraint EXCEPT !.q = data.q]
    /\ \E c \in ConstraintValues : constraint_value' = c
    /\ calls' = Append(calls, "compute")
    /\ cnt' = Bump(cnt, "compute")
    /\ pc' = "ik_resid"
    /\ UNCHANGED << buildVars, q, y, k, J, primal_feas, dual_feas, rhs, dz >>
    /\ UNCHANGED << simVars, out, shown, initargs, cdargs, heap >>

\* lines 118-120
IKResiduals ==
    /\ pc = "ik_resid"
    /\ \E Jm \in Jacobians : J' = Jm
    /\ primal_feas' = NormInf(constraint_value)
    /\ dual_feas' = NumNormInf(MatTVec(J', NumVecAdd(NumVec(constraint_value), y)))
    /\ pc' = "ik_test"
    /\ UNCHANGED << buildVars, q, y, k, constraint_value, rhs, dz >>
    /\ UNCHANGED << simVars, logVars, heap >>

\* lines 121-124
IKTest ==
    /\ pc = "ik_test"
    /\ IF Converged(primal_feas, dual_feas)
          THEN /\ out' = << "Convergence achieved" >>
               /\ cnt' = Bump(cnt, "conv")
               /\ calls' = Append(calls, "break")
               /\ pc' = "q_sol"
          ELSE /\ out' = << "constraint_value:", Norm2Sq(constraint_value) >>
               /\ cnt' = Bump(cnt, "resid")
               /\ calls' = Append(calls, "test")
               /\ pc' = "ik_solve"
    /\ UNCHANGED << buildVars, ikVars, simVars >>
    /\ UNCHANGED << shown, kkt_constraint, initargs, cdargs, heap >>

\* lines 125-129
IKSolve ==
    /\ pc = "ik_solve"
    /\ rhs' = Rhs(constraint_value, y, nv(model))
    /\ \E s \in KKTSolutions : dz' = s
    /\ calls' = Append(calls, "solve")
    /\ cnt' = Bump(cnt, "solve")
    /\ pc' = "ik_update"
    /\ UNCHANGED << buildVars, q, y, k, constraint_value, J, primal_feas, dual_feas >>
    /\ UNCHANGED << simVars, out, shown, kkt_constraint, initargs, cdargs, heap >>

\* mutant of IKUpdate: the dynamics are stepped inside the inverse-kinematics loop
IKUpdate_StepsDynamics ==
    /\ pc = "ik_update"
    /\ q' = integrate(model, q, VecScale(-alpha, Tail_(dz, constraint_dim)))
    /\ y' = NumVecSub(y, NumVecScale(alpha,
                  NumVecAdd(NumVecNeg(NumVec(Head_(dz, constraint_dim))), y)))
    /\ calls' = Append(calls, "integrate")
    /\ cnt' = Bump(Bump(Bump(cnt, "integrate"), "update"), "cd")
    /\ pc' = "ik_for"
    /\ UNCHANGED << buildVars, k, constraint_value, J, primal_feas, dual_feas, rhs, dz >>
    /\ UNCHANGED << simVars, out, shown, kkt_constraint, initargs, cdargs, heap >>

\* lines 131-133
IKUpdate ==
    /\ pc = "ik_update"
    /\ q' = integrate(model, q, VecScale(-alpha, Tail_(dz, constraint_dim)))
    /\ y' = NumVecSub(y, NumVecScale(alpha,
                  NumVecAdd(NumVecNeg(NumVec(Head_(dz, constraint_dim))), y)))
    /\ calls' = Append(calls, "integrate")
    /\ cnt' = Bump(Bump(cnt, "integrate"), "update")
    /\ pc' = "ik_for"
    /\ UNCHANGED << buildVars, k, constraint_value, J, primal_feas, dual_feas, rhs, dz >>
    /\ UNCHANGED << simVars, out, shown, kkt_constraint, initargs, cdargs, heap >>

(* ----------------------------- hand-over to the simulation ------------- *)
\* line 136 on one angle: (x + np.pi) % np.pi - np.pi, % with the sign of the
\* divisor.  The sum x + np.pi is rounded: for x a multiple of pi other than
\* 0.0 itself it lands on a multiple of pi or just below one, and the result
\* is -pi or the grid's 0 (a few 1e-15 rad below zero)
NormaliseAngle(x) ==
    IF x # 0 /\ x % Pi = 0 THEN { -Pi, 0 } ELSE { ((x + Pi) % Pi) - Pi }

\* line 136: the values (q[:] + np.pi) % np.pi - np.pi can take
Normalise(qq) ==
    { r \in [1..Len(qq) -> (-Pi)..0] : \A i \in 1..Len(qq) : r[i] \in NormaliseAngle(qq[i]) }

\* lines 136-137
ComputeQSol ==
    /\ pc = "q_sol"
    /\ \E r \in Normalise(q) : q_sol' = r
    /\ shown' = q_sol'
    /\ cnt' = Bump(cnt, "display")
    /\ pc' = "sim_init"
    /\ UNCHANGED << buildVars, ikVars, v, tau, dt, t, mu_sim, a >>
    /\ UNCHANGED << out, calls, kkt_constraint, initargs, cdargs, heap >>

\* lines 140-147
SimInit ==
    /\ pc = "sim_init"
    /\ q' = q_sol
    /\ v' = zeros(nv(model))
    /\ tau' = zeros(nv(model))
    /\ dt' = DtMs
    /\ t' = Double(0, 1000)
    /\ mu_sim' = "1e-10"
    /\ pc' = "gains"
    /\ UNCHANGED << buildVars, y, k, constraint_value, J, primal_feas, dual_feas, rhs, dz >>
    /\ UNCHANGED << q_sol, a, logVars, heap >>

\* mutant of SetGains: the square root is missing from Kd
SetGains_NoSqrt ==
    /\ pc = "gains"
    /\ constraint_model' = [constraint_model EXCEPT !.Kp = KpValue,
                                                    !.Kd = 2 * KpValue * GainScale]
    /\ pc' = "init_cd"
    /\ UNCHANGED << model, collision_model, joint1_id, joint2_id, joint3_id, viz, data, q0,
                    constraint_data, constraint_dim >>
    /\ UNCHANGED << ikVars, simVars, logVars, heap >>

\* lines 148-149: Kp = 10, Kd = 2. * np.sqrt(Kp)
SetGains ==
    /\ pc = "gains"
    /\ constraint_model' = [constraint_model EXCEPT !.Kp = KpValue,
                                                    !.Kd = 2 * Sqrt(KpValue)]
    /\ pc' = "init_cd"
    /\ UNCHANGED << model, collision_model, joint1_id, joint2_id, joint3_id, viz, data, q0,
                    constraint_data, constraint_dim >>
    /\ UNCHANGED << ikVars, simVars, logVars, heap >>

\* line 150: pin.initContactDynamics(model, data, [constraint_model])
InitContactDynamics ==
    /\ pc = "init_cd"
    /\ initargs' = [id |-> data.id, model |-> model.id,
                    contact_models |-> << constraint_model >>]
    /\ cnt' = Bump(cnt, "initcd")
    /\ pc' = "sim_while"
    /\ UNCHANGED << buildVars, ikVars, simVars >>
    /\ UNCHANGED << out, calls, shown, kkt_constraint, cdargs, heap >>

(* ----------------------------- dynamics loop --------------------------- *)
\* line 152: while t <= T_sim
SimWhile ==
    /\ pc = "sim_while"
    /\ IF FLeq(t, Double(T_sim, 1000))
          THEN /\ pc' = "sim_cd"
               /\ calls' = NoCalls
          ELSE /\ pc' = "done"
               /\ UNCHANGED calls
    /\ UNCHANGED << buildVars, ikVars, simVars >>
    /\ UNCHANGED << out, cnt, shown, kkt_constraint, initargs, cdargs, heap >>

\* line 153: a = pin.contactDynamics(model, data, q, v, tau, [constraint_model],
\*                                   [constraint_data], mu_sim)
SimContactDynamics ==
    /\ pc = "sim_cd"
    /\ \E acc \in Accelerations : a' = acc
    /\ cdargs' = [id |-> data.id, model |-> model.id, q |-> q, v |-> v, tau |-> tau,
                  contact_models |-> << constraint_model >>,
                  contact_datas |-> << constraint_data.id >>, mu |-> mu_sim]
    /\ calls' = Append(calls, "contactDynamics")
    /\ cnt' = Bump(cnt, "cd")
    /\ pc' = "sim_v"
    /\ UNCHANGED << buildVars, ikVars, q_sol, v, tau, dt, t, mu_sim >>
    /\ UNCHANGED << out, shown, kkt_constraint, initargs, heap >>

\* line 154: v += a*dt
SimVelocity ==
    /\ pc = "sim_v"
    /\ v' = VecAdd(v, VecScale(dt, a))
    /\ calls' = Append(calls, "v")
    /\ pc' = "sim_q"
    /\ UNCHANGED << buildVars, ikVars, q_sol, tau, dt, t, mu_sim, a >>
    /\ UNCHANGED << out, cnt, shown, kkt_constraint, initargs, cdargs, heap >>

\* mutant of SimIntegrate: q is advanced with the velocity from before the update
SimIntegrate_OldVelocity ==
    /\ pc = "sim_q"
    /\ q' = integrate(model, q, VecScale(dt, VecSub(v, VecScale(dt, a))))
    /\ calls' = Append(calls, "integrate")
    /\ cnt' = Bump(cnt, "integrate")
    /\ pc' = "sim_display"
    /\ UNCHANGED << buildVars, y, k, constraint_value, J, primal_feas, dual_feas, rhs, dz >>
    /\ UNCHANGED << simVars, out, shown, kkt_constraint, initargs, cdargs, heap >>

\* line 155: q = pin.integrate(model, q, v*dt)
SimIntegrate ==
    /\ pc = "sim_q"
    /\ q' = integrate(model, q, VecScale(dt, v))
    /\ calls' = Append(calls, "integrate")
    /\ cnt' = Bump(cnt, "integrate")
    /\ pc' = "sim_display"
    /\ UNCHANGED << buildVars, y, k, constraint_value, J, primal_feas, dual_feas, rhs, dz >>
    /\ UNCHANGED << simVars, out, shown, kkt_constraint, initargs, cdargs, heap >>

\* line 156: viz.display(q)
SimDisplay ==
    /\ pc = "sim_display"
    /\ shown' = q
    /\ calls' = Append(calls, "display")
    /\ cnt' = Bump(cnt, "display")
    /\ pc' = "sim_advance"
    /\ UNCHANGED << buildVars, ikVars, simVars >>
    /\ UNCHANGED << out, kkt_constraint, initargs, cdargs, heap >>

\* mutant of SimAdvance: the clock is advanced for the sleep and for the step
SimAdvance_Twice ==
    /\ pc = "sim_advance"
    /\ t' = FAdd(FAdd(t, Double(dt, 1000)), Double(dt, 1000))
    /\ calls' = Append(calls, "advance")
    /\ cnt' = Bump(cnt, "step")
    /\ pc' = "sim_while"
    /\ UNCHANGED << buildVars, ikVars, q_sol, v, tau, dt, mu_sim, a >>
    /\ UNCHANGED << out, shown, kkt_constraint, initargs, cdargs, heap >>

\* lines 157-158: time.sleep(dt); t += dt, the sum rounded to a double
SimAdvance ==
    /\ pc = "sim_advance"
    /\ t' = FAdd(t, Double(dt, 1000))
    /\ calls' = Append(calls, "advance")
    /\ cnt' = Bump(cnt, "step")
    /\ pc' = "sim_while"
    /\ UNCHANGED << buildVars, ikVars, q_sol, v, tau, dt, mu_sim, a >>
    /\ UNCHANGED << out, shown, kkt_constraint, initargs, cdargs, heap >>

Next ==
    \/ CreateModel \/ AddGeom0 \/ AddJoint1 \/ AddJoint2 \/ AddJoint3
    \/ VizSetup \/ DisplayQ0 \/ CreateData \/ CreateConstraint
    \/ IKInit \/ IKFor \/ IKJacobians \/ IKCompute \/ IKResiduals \/ IKTest
    \/ IKSolve \/ IKUpdate
    \/ ComputeQSol \/ SimInit \/ SetGains \/ InitContactDynamics
    \/ SimWhile \/ SimContactDynamics \/ SimVelocity \/ SimIntegrate
    \/ SimDisplay \/ SimAdvance

Spec == Init /\ [][Next]_vars

\* the interpreter always executes the next statement
FairSpec == Spec /\ WF_vars(Next)

(* ======================================================================= *)
(* Properties                                                              *)
(* ======================================================================= *)
BuildPcs == { "create_model", "geom0", "joint1", "joint2", "joint3" }

VizPcs == { "viz", "display_q0", "create_data", "constraint" }

IKPcs == { "ik_init", "ik_for", "ik_jac", "ik_compute", "ik_resid", "ik_test",
           "ik_solve", "ik_update", "q_sol" }

IKBodyPcs == { "ik_jac", "ik_compute", "ik_resid", "ik_test", "ik_solve", "ik_update" }

SimBodyPcs == { "sim_cd", "sim_v", "sim_q", "sim_display", "sim_advance" }

SimPcs == { "sim_init", "gains", "init_cd", "sim_while", "done" } \cup SimBodyPcs

\* the phase a statement belongs to
Phase(p) == IF p \in BuildPcs THEN 1 ELSE IF p \in VizPcs THEN 2
            ELSE IF p \in IKPcs THEN 3 ELSE 4

\* two joint configurations describe the same pose of the mechanism
SameConfiguration(qa, qb) ==
    /\ Len(qa) = Len(qb)
    /\ \A i \in 1..Len(qa) : (qa[i] - qb[i]) % (2 * Pi) = 0

(* ----------------------------------------------------------------------- *)
\* C1: the inverse-kinematics loop body is entered at most N times, so
\* computeJointJacobians, kkt_constraint.compute and kkt_constraint.solve are
\* each called at most N times, whatever the library returns, and control
\* eventually leaves the loop.
C1_IKLoopBounded ==
    /\ [](cnt.jac <= N /\ cnt.compute <= N /\ cnt.solve <= N /\ k < N)
    /\ [](pc = "ik_jac" => cnt.jac = k)
    /\ [](pc \in IKBodyPcs \ { "ik_jac" } => cnt.jac = k + 1)
    /\ <>(pc = "q_sol")

\* the loop is left after all N iterations have run and solved
C1_Witness == pc = "q_sol" /\ cnt.jac = N /\ cnt.compute = N /\ cnt.solve = N

(* ----------------------------------------------------------------------- *)
\* the horizon as the script's double
Horizon == Double(T_sim, 1000)

\* the double of the exact time n * dt
ExactTime(n) == Double(n * DtMs, 1000)

\* t after n runs of line 158, from t = 0 of line 146
RECURSIVE Accumulated(_)
Accumulated(n) ==
    IF n = 0 THEN Double(0, 1000)
    ELSE Only({ FAdd(tc, Double(DtMs, 1000)) : tc \in { Accumulated(n - 1) } })

\* the arithmetic has been exact so far: no sum of the first n runs of line
\* 158 has left the exact time
RECURSIVE InExactArithmetic(_)
InExactArithmetic(n) ==
    /\ Accumulated(n) = ExactTime(n)
    /\ n > 0 => InExactArithmetic(n - 1)

C2_TimeAdvance ==
    pc \in SimBodyPcs \cup { "sim_while" } =>
        \/ pc # "sim_advance" /\ t' = t
        \/ /\ pc = "sim_advance" /\ pc' = "sim_while"
           /\ t' = FAdd(t, Double(DtMs, 1000))
           /\ t' # t /\ FLeq(t, t')

\* C2: t starts at 0 and is increased by dt > 0, once per step and by nothing
\* else, so that it is the sum of one dt per step run; the step body runs
\* only while t <= T_sim; the loop exits only from its test, at the first
\* t > T_sim, which it eventually reaches.  In exact arithmetic (every sum so
\* far is the exact time) the test passes exactly for the steps 0 ..
\* T_sim \div dt, a step at the exact time T_sim runs at t = T_sim, and the
\* loop exits after exactly T_sim \div dt + 1 steps.
C2_DynamicsLoopBounded ==
    /\ [](pc \in { "gains", "init_cd" } => t = << 0, 0, 0, 0, 0 >> /\ cnt.step = 0)
    /\ [](pc \in SimBodyPcs \cup { "sim_while", "done" } =>
            dt = DtMs /\ dt > 0 /\ t = Accumulated(cnt.step))
    /\ [](pc \in SimBodyPcs => FLeq(t, Horizon))
    /\ [](pc \in SimBodyPcs \ { "sim_cd" } => cnt.cd = cnt.step + 1)
    /\ [](pc \in { "sim_cd", "sim_while", "done" } => cnt.cd = cnt.step)
    /\ [][C2_TimeAdvance]_vars
    /\ [][pc' = "done" => pc = "sim_while" /\ ~FLeq(t, Horizon) /\ t' = t]_vars
    /\ [][pc = "sim_while" /\ FLeq(t, Horizon) => pc' = "sim_cd"]_vars
    /\ [](pc = "sim_while" /\ InExactArithmetic(cnt.step) =>
            (FLeq(t, Horizon) <=> cnt.step <= T_sim \div DtMs))
    /\ [](pc \in SimBodyPcs /\ InExactArithmetic(cnt.step)
             /\ cnt.step * DtMs = T_sim => t = Horizon)
    /\ [](pc = "done" /\ InExactArithmetic(cnt.step) =>
            /\ cnt.cd = T_sim \div DtMs + 1
            /\ cnt.step = T_sim \div DtMs + 1)
    /\ <>(pc = "done")

\* the loop has exited past the horizon, in exact arithmetic, after its
\* T_sim \div dt + 1 steps
C2_Witness ==
    /\ pc = "done" /\ ~FLeq(t, Horizon) /\ InExactArithmetic(cnt.step)
    /\ cnt.cd = T_sim \div DtMs + 1 /\ cnt.cd >= 3

(* ----------------------------------------------------------------------- *)
\* C3: the phases run in the order construction, visualizer, inverse
\* kinematics, dynamics and never go back: nothing is added to the model or
\* the geometry once the visualizer exists, no KKT compute or solve follows
\* the first contactDynamics call, and contactDynamics is not called before
\* the inverse-kinematics loop has exited.
C3_PhaseOrder ==
    /\ [][Phase(pc') >= Phase(pc) /\ Phase(pc') <= Phase(pc) + 1]_vars
    /\ [](viz.id # 0 =>
            /\ Len(model.joints) = viz.njoints
            /\ Len(collision_model.geometryObjects) = viz.ngeoms
            /\ cnt.addJoint = viz.njoints /\ cnt.addGeom = viz.ngeoms)
    /\ [][cnt.cd > 0 => cnt'.compute = cnt.compute /\ cnt'.solve = cnt.solve]_vars
    /\ [](Phase(pc) < 4 => cnt.cd = 0 /\ cnt.initcd = 0)
    /\ [](Phase(pc) < 3 => cnt.jac = 0 /\ cnt.compute = 0 /\ cnt.solve = 0)
    /\ [](Phase(pc) < 2 => viz.id = 0)

\* the run is over and every phase did its work
C3_Witness ==
    /\ pc = "done" /\ cnt.addJoint = 3 /\ viz.id # 0
    /\ cnt.compute > 1 /\ cnt.solve > 0 /\ cnt.cd > 1

(* ----------------------------------------------------------------------- *)
PrimalBelowEps ==
    \A i \in 1..Len(constraint_value) :
        -eps < constraint_value[i] /\ constraint_value[i] < eps

\* a component of J^T (constraint_value + y) is below eps when its whole
\* units cancel and its steps are within the tolerance
DualBelowEps ==
    \A j \in 1..nv(model) :
        LET units == J[1][j] * y[1].one + J[2][j] * y[2].one + J[3][j] * y[3].one
            steps == J[1][j] * (constraint_value[1] + y[1].step)
                     + J[2][j] * (constraint_value[2] + y[2].step)
                     + J[3][j] * (constraint_value[3] + y[3].step)
        IN  units = 0 /\ -eps < steps /\ steps < eps

C4_TestStep ==
    pc = "ik_test" =>
        /\ (cnt'.conv = cnt.conv + 1) <=> (PrimalBelowEps /\ DualBelowEps)
        /\ (cnt'.conv = cnt.conv) <=> ~(PrimalBelowEps /\ DualBelowEps)
        /\ (out' = << "Convergence achieved" >>) <=> (PrimalBelowEps /\ DualBelowEps)
        /\ cnt'.conv # cnt.conv =>
              /\ pc' = "q_sol" /\ q' = q /\ y' = y
              /\ cnt'.solve = cnt.solve /\ calls' = Append(calls, "break")

\* C4: "Convergence achieved" is printed by the test of an iteration exactly
\* when every component of the constraint value and of J^T (constraint_value
\* + y) is strictly below eps in magnitude; it is printed at most once, and
\* the iteration that prints it leaves the loop at once, with no solve and
\* with q and y untouched.
C4_ConvergenceTest ==
    /\ [][C4_TestStep]_vars
    /\ [][pc # "ik_test" => cnt'.conv = cnt.conv]_vars
    /\ [][cnt.conv > 0 => cnt'.solve = cnt.solve /\ y' = y /\ pc' \notin IKBodyPcs]_vars
    /\ [](cnt.conv <= 1)

\* convergence is reported in a later iteration, after q has been updated
C4_Witness ==
    /\ pc = "q_sol" /\ cnt.conv = 1 /\ k >= 2 /\ cnt.solve = k
    /\ out = << "Convergence achieved" >> /\ q # q0

(* ----------------------------------------------------------------------- *)
\* C5: when no iteration passes the tolerance test, the loop runs all N
\* iterations, prints N residual lines and no "Convergence achieved", and the
\* configuration handed to the simulation is the pose of the last iterate q.
C5_NonConvergenceHandOver ==
    (pc = "sim_init" /\ cnt.conv = 0) =>
        /\ cnt.jac = N /\ cnt.resid = N /\ cnt.update = N
        /\ SameConfiguration(q_sol, q)

\* what the code does on that path: all N iterations, N residual lines, and
\* the hand-over goes through line 136 like on the converged path
C5_NonConvergenceRunsOn ==
    /\ (pc \in SimPcs \cup { "q_sol" } /\ cnt.conv = 0) =>
          cnt.jac = N /\ cnt.resid = N /\ cnt.update = N
    /\ (pc = "sim_init") => q_sol \in Normalise(q)

(* ----------------------------------------------------------------------- *)
\* the links: the base (joint 0) and the body of every added joint
Links == 0..Len(model.joints)

\* the connections: every joint to its parent, and the contact constraint
Connections ==
    { { j, model.joints[j].parent } : j \in 1..Len(model.joints) }
        \cup { { constraint_model.joint1_id, constraint_model.joint2_id } }

Neighbours(l) == { m \in Links : m # l /\ { l, m } \in Connections }

RECURSIVE ReachFrom(_, _)
ReachFrom(S, n) ==
    IF n = 0 THEN S
    ELSE ReachFrom(S \cup UNION { Neighbours(l) : l \in S }, n - 1)

GeomOn(name) ==
    { g.parentJoint : g \in { collision_model.geometryObjects[i] :
                              i \in 1..Len(collision_model.geometryObjects) }
                      \cap { h \in { collision_model.geometryObjects[i] :
                              i \in 1..Len(collision_model.geometryObjects) } :
                             h.name = name } }

\* C6: once the constraint exists the mechanism is a closed four-bar chain:
\* four link geometries on joints 0, joint1, joint2, joint3, three RY joints
\* each hanging from the previous one, one contact constraint from joint3
\* back to joint 0, and every link connected to exactly two others in a
\* single cycle.
C6_FourBarClosedChain ==
    constraint_model.id # 0 =>
        /\ Len(collision_model.geometryObjects) = 4
        /\ GeomOn("link_A1") = { 0 } /\ GeomOn("link_B1") = { joint1_id }
        /\ GeomOn("link_A2") = { joint2_id } /\ GeomOn("link_B2") = { joint3_id }
        /\ Cardinality({ 0, joint1_id, joint2_id, joint3_id }) = 4
        /\ Len(model.joints) = 3
        /\ \A j \in 1..3 : model.joints[j].type = "RY"
        /\ model.joints[joint1_id].parent = 0
        /\ model.joints[joint2_id].parent = joint1_id
        /\ model.joints[joint3_id].parent = joint2_id
        /\ constraint_model.joint1_id = joint3_id
        /\ constraint_model.joint2_id = 0
        /\ Cardinality(Links) = 4 /\ Cardinality(Connections) = 4
        /\ \A l \in Links : Cardinality(Neighbours(l)) = 2
        /\ ReachFrom({ 0 }, 4) = Links

\* the closed mechanism is being simulated
C6_Witness == constraint_model.id # 0 /\ cnt.cd > 0 /\ Len(model.joints) = 3

(* ----------------------------------------------------------------------- *)
C7_CallStep ==
    pc = "sim_cd" =>
        /\ cdargs'.q = q /\ cdargs'.v = v /\ cdargs'.tau = tau
        /\ cdargs'.mu = mu_sim /\ cnt'.cd = cnt.cd + 1

C7_ParametersKept ==
    pc \in SimBodyPcs \cup { "sim_while" } =>
        /\ tau' = tau /\ dt' = dt /\ mu_sim' = mu_sim
        /\ constraint_model' = constraint_model

\* C7: a dynamics step calls contactDynamics once with the current q, v and
\* tau, then sets v to v + a*dt, then q to q + v_new*dt, then displays that q
\* once, then advances t, in this order; tau is the zero vector and dt,
\* mu_sim and the corrector gains never change during the loop.
C7_SemiImplicitEulerStep ==
    /\ [](pc \in { "sim_while", "done" } /\ cnt.step > 0 =>
            /\ calls = << "contactDynamics", "v", "integrate", "display", "advance" >>
            /\ \A i \in 1..3 :
                  /\ v[i] = cdargs.v[i] + a[i] * DtMs
                  /\ q[i] = cdargs.q[i] + (cdargs.v[i] + a[i] * DtMs) * DtMs
            /\ shown = q
            /\ cnt.cd = cnt.step /\ cnt.display = cnt.step + 2)
    /\ [][C7_CallStep]_vars
    /\ [](pc \in SimBodyPcs \cup { "sim_while", "done" } =>
            /\ tau = << 0, 0, 0 >> /\ dt = DtMs /\ mu_sim = "1e-10"
            /\ constraint_model = initargs.contact_models[1])
    /\ [][C7_ParametersKept]_vars

\* two steps are done, the last with a non-zero acceleration and velocity
C7_Witness ==
    /\ pc = "sim_while" /\ cnt.step = 2
    /\ a # << 0, 0, 0 >> /\ cdargs.v # << 0, 0, 0 >> /\ v # cdargs.v

(* ----------------------------------------------------------------------- *)
IsPrefix(s, u) == Len(s) <= Len(u) /\ s = SubSeq(u, 1, Len(s))

C8_UpdateStep ==
    pc \in IKBodyPcs \cup { "ik_for" } /\ (q' # q \/ y' # y) =>
        /\ pc = "ik_update" /\ cnt'.update = cnt.update + 1
        /\ calls = << "computeJointJacobians", "compute", "test", "solve" >>

\* C8: an iteration of the inverse-kinematics loop makes its calls in the
\* order computeJointJacobians, compute, test, solve, integrate, each at most
\* once; solve always uses the factorisation of the current q; q and y change
\* only in the update of an iteration whose test failed, once each, so the
\* updates, the solves and the printed residual lines are equally many.
C8_IKIterationOrder ==
    /\ [](pc \in IKBodyPcs \cup { "ik_for" } =>
            \/ IsPrefix(calls, << "computeJointJacobians", "compute", "test",
                                  "solve", "integrate" >>)
            \/ calls = << "computeJointJacobians", "compute", "break" >>)
    /\ [](pc \in { "ik_resid", "ik_test", "ik_solve", "ik_update" } =>
            kkt_constraint.q = q /\ data.q = q)
    /\ [][C8_UpdateStep]_vars
    /\ [][cnt'.update # cnt.update => pc = "ik_update"]_vars
    /\ [](pc \in { "ik_for", "q_sol" } =>
            /\ cnt.update = cnt.resid /\ cnt.solve = cnt.resid
            /\ cnt.integrate = cnt.resid
            /\ cnt.jac = cnt.resid + cnt.conv /\ cnt.compute = cnt.jac)

\* a solve has just run in a later iteration, for a q that has moved
C8_Witness ==
    /\ pc = "ik_update" /\ k >= 2 /\ q # q0 /\ kkt_constraint.q = q
    /\ calls = << "computeJointJacobians", "compute", "test", "solve" >>

(* ----------------------------------------------------------------------- *)
\* C9: q_sol, displayed after the inverse kinematics and used to start the
\* simulation, is the pose of the inverse-kinematics result q: every joint
\* angle of q_sol differs from that of q by a multiple of 2*pi.
C9_QSolSameConfiguration ==
    pc = "sim_init" => SameConfiguration(q_sol, q)

\* what line 136 does: every angle is moved by a multiple of pi into [-pi, 0]
C9_QSolModuloPi ==
    pc = "sim_init" =>
        \A i \in 1..Len(q) :
            /\ (q_sol[i] - q[i]) % Pi = 0
            /\ -Pi <= q_sol[i] /\ q_sol[i] <= 0

(* ----------------------------------------------------------------------- *)
\* C10: initContactDynamics is called exactly once, with the gains already
\* set to Kp and Kd = 2*sqrt(Kp), before the first contactDynamics call; every
\* contactDynamics call gets the constraint model and data that were created
\* before the inverse-kinematics loop.
C10_InitContactDynamicsOnce ==
    /\ cnt.initcd <= 1
    /\ (cnt.cd > 0 \/ pc \in { "sim_while", "done" }) => cnt.initcd = 1
    /\ cnt.initcd = 1 =>
          LET cm == initargs.contact_models[1]
          IN  /\ cm.id = constraint_model.id
              /\ cm.Kp = KpValue
              /\ cm.Kd * cm.Kd <= 4 * cm.Kp * GainScale * GainScale
              /\ 4 * cm.Kp * GainScale * GainScale < (cm.Kd + 2) * (cm.Kd + 2)
              /\ cm.Kd % 2 = 0
              /\ cm = constraint_model
    /\ cnt.cd > 0 =>
          /\ Len(cdargs.contact_models) = 1 /\ Len(cdargs.contact_datas) = 1
          /\ cdargs.contact_models[1] = initargs.contact_models[1]
          /\ cdargs.contact_models[1].id = constraint_model.id
          /\ cdargs.contact_datas[1] = constraint_data.id
          /\ constraint_data.of = constraint_model.id
          /\ constraint_model.id < kkt_constraint.id
          /\ constraint_data.id < kkt_constraint.id

\* the second contactDynamics call has been made
C10_Witness == cnt.initcd = 1 /\ cnt.cd >= 2 /\ constraint_model.Kp = KpValue

====
